---- MODULE Spec2Model ----
(***************************************************************************)
(* Model of the northdata scraper: the sequential task Queue (queue.ts),   *)
(* the three queues of the HTTP front end (api.ts) and the session         *)
(* lifecycle and scrape operations of NorthDataScraper (scraper.ts).       *)
(*                                                                         *)
(* JavaScript runs one continuation at a time.  Every action below is one  *)
(* run-to-completion step: the code from the resolution of one awaited     *)
(* promise up to the next await (or the return) of the same async call.    *)
(***************************************************************************)
EXTENDS Integers, Sequences, FiniteSets, TLC

\* ------------------------------------------------------------------ bounds

\* enqueue calls made on the generic Queue instance
MaxTasks == 3

\* requests the clients send in all (enqueue calls on the queues of api.ts)
MaxRequests == 2

\* browsers the environment lets puppeteer.launch start; later launches fail
MaxLaunches == 3

\* config.browser.maxRetries, the configured retry ceiling (MAX_RETRIES)
maxRetries == 2

\* initialize() / close() calls a direct client of the scraper object makes
MaxCalls == 3

\* setupRequestInterception calls made on one page
MaxSetups == 3

\* requests intercepted on one page
MaxIntercepts == 3

\* length of a request URL, in characters
MaxUrlLen == 3

\* nodes below the section element of a page to sanitize
MaxNodes == 2

\* typeHumanLike: the largest configured delay, the length of the text and
\* the number of values Math.random() takes
MaxDelay == 9

MaxText == 2

RandomSteps == 4

MaxOf(a, b) == IF a > b THEN a ELSE b

Tasks == 1..MaxOf(MaxTasks, MaxRequests)

Browsers == 1..MaxLaunches

\* values a generic thunk can fulfil or reject with
Vals == {"a", "b"}

NoVal == "-"

\* The generic instance stands for any Queue<T> with arbitrary thunks; the
\* other three are searchQueue, suggestionsQueue and pageContentQueue.
Generic == "generic"

Endpoints == {"search", "suggestions", "pageContent"}

Categories == Endpoints \cup {"networkSvg"}

Queues == {Generic} \cup Categories

VARIABLES
    queue,        \* Queue.queue: the pending entries, oldest first
    processing,   \* Queue.processing
    nEnq,         \* number of enqueue calls made so far (entry k is the k-th call)
    thunk,        \* per entry: the promise returned by task()
    deferred,     \* per entry: the promise enqueue() returned
    awaiting,     \* entries whose processNext call is suspended at `await task()`
    starts,       \* per entry: number of times task() was called
    settles,      \* per entry: number of resolve/reject calls made
    server,       \* startServer: constructed, launching, listening or failed
    browser,      \* NorthDataScraper.browser: a browser id, 0 for null
    isLoggedIn,   \* NorthDataScraper.isLoggedIn
    live,         \* browsers launched whose close has not completed
    launched,     \* number of browsers launched so far (the last id handed out)
    loginRuns,    \* per browser: login procedures that submitted the credentials
    pages,        \* per category and browser: pages opened and not closed
    op,           \* per category: the scrape invocation its queue is running
    call,         \* the lifecycle call (initialize / close) a direct client has made
    net,          \* one page: its request listeners and the last request intercepted
    san,          \* one run of the sanitization of getPageContent: input and output
    http,         \* GET /page: answers of status 400 given, url last passed on
    typing        \* one call of typeHumanLike: its arguments and its progress

qvars == <<queue, processing, nEnq, thunk, deferred, awaiting, starts, settles>>

svars == <<server, browser, isLoggedIn, live, launched, loginRuns>>

vars == <<queue, processing, nEnq, thunk, deferred, awaiting, starts, settles,
          server, browser, isLoggedIn, live, launched, loginRuns, pages, op, call,
          net, san, http, typing>>

\* the variables of the page-level models, which the server's steps leave alone
pvars == <<net, san, http, typing>>

\* ------------------------------------------------------------- promise values

NotStarted == [state |-> "none", isError |-> FALSE, v |-> NoVal]

Running == [state |-> "running", isError |-> FALSE, v |-> NoVal]

Fulfilled(v) == [state |-> "fulfilled", isError |-> FALSE, v |-> v]

\* a rejection reason: an Error instance or any other thrown value
Rejected(isErr, v) == [state |-> "rejected", isError |-> isErr, v |-> v]

Pending == [state |-> "pending", isError |-> FALSE, v |-> NoVal]

ThunkOutcomes ==
    {Fulfilled(v) : v \in Vals} \cup {Rejected(e, v) : e \in BOOLEAN, v \in Vals}

\* `error instanceof Error ? error : new Error(String(error))`
ToError(r) == IF r.isError THEN r ELSE [r EXCEPT !.isError = TRUE]

\* the try/catch of processNext: resolve(result) or reject(...)
SettleNoReject(outcome) ==
    IF outcome.state = "fulfilled"
    THEN [state |-> "resolved", isError |-> FALSE, v |-> outcome.v]
    ELSE Pending

Settle(outcome) ==
    IF outcome.state = "fulfilled"
    THEN [state |-> "resolved", isError |-> FALSE, v |-> outcome.v]
    ELSE ToError(outcome)

\* ------------------------------------------------- scrape invocation (start)

\* an error value: the step that raised it and the retry counter of the
\* attempt it was raised in
NoError == <<"none", 0>>

\* pc: the await the invocation is suspended at ("done": it has returned or
\* thrown and processNext has not resumed yet); retryCount: its parameter;
\* page: the browser owning the page the attempt opened (0: none yet, or
\* closed by the failure handler);
\* target: the browser a pending newPage / close call was made on;
\* login: what login(page) did in this attempt; err: the error the catch
\* block of this attempt caught; failedAt: the step the earlier attempts of
\* the invocation failed at ("none": no attempt has failed, "various": not
\* all at the same step); out: the value the invocation returned
\* (<<"result", r>>: the result of the attempt with counter r) or the error
\* it threw; wait: how the readiness wait ended that the attempt has just
\* made (kept until its extraction settles); got: what the extraction found
\* (kept while the attempt is on its way to return it); opened: pages the
\* invocation has opened; teardowns: browser.close() calls of its failure
\* handlers that succeeded; relaunches: launches of its failure handlers;
\* closeCalls: page.close() calls made on the page of the attempt
Idle == [pc |-> "idle", retryCount |-> 0, page |-> 0, target |-> 0,
         login |-> "none", err |-> NoError, failedAt |-> "none", out |-> NoError,
         wait |-> "none", got |-> "none", opened |-> 0, teardowns |-> 0,
         relaunches |-> 0, closeCalls |-> 0]

\* failedAt after one more attempt failed at step e
FailedAlso(prev, e) == IF prev \in {"none", e} THEN e ELSE "various"

\* The synchronous prefix of search / getSuggestions / getPageContent /
\* getNetworkSvg called with retry counter r while this.browser = b: with no browser, initialize()
\* calls puppeteer.launch; with one, this.browser.newPage() is called.
BeginAttemptCountsTwice(b, r, f) ==
    IF b = 0
    THEN [Idle EXCEPT !.pc = "launch", !.retryCount = r + 1, !.failedAt = f]
    ELSE [Idle EXCEPT !.pc = "newPage", !.retryCount = r + 1, !.target = b,
                      !.failedAt = f]

BeginAttempt(b, r, f) ==
    IF b = 0
    THEN [Idle EXCEPT !.pc = "launch", !.retryCount = r, !.failedAt = f]
    ELSE [Idle EXCEPT !.pc = "newPage", !.retryCount = r, !.target = b,
                      !.failedAt = f]

\* ---------------------------------------------------------------- Queue

\* the early return of processNext
BlockedIgnoresProcessing(proc, pend) == pend = <<>>

BlockedAlways(proc, pend) == TRUE

Blocked(proc, pend) == proc \/ pend = <<>>

\* this.queue.shift()!
ShiftedEntryLast(pend) == pend[Len(pend)]

ShiftedEntry(pend) == Head(pend)

AfterShiftLast(pend) == SubSeq(pend, 1, Len(pend) - 1)

AfterShiftKeepsHead(pend) == pend

AfterShift(pend) == Tail(pend)

\* the `finally` of processNext: this.processing = false
ClearedStays(proc) == proc

Cleared(proc) == FALSE

\* processNext, called with the pending list pend, the flag proc, the
\* suspended calls aw and the invocation record o in force: returns at once
\* when blocked, else marks processing, shifts the head and calls its task
\* (for a queue of api.ts, the task calls the scraper, which runs up to its
\* first await).
ProcessNext(q, pend, proc, aw, o) ==
    IF Blocked(proc, pend)
    THEN /\ queue' = [queue EXCEPT ![q] = pend]
         /\ processing' = [processing EXCEPT ![q] = proc]
         /\ awaiting' = [awaiting EXCEPT ![q] = aw]
         /\ op' = IF q \in Categories THEN [op EXCEPT ![q] = o] ELSE op
         /\ UNCHANGED <<thunk, starts>>
    ELSE LET t == ShiftedEntry(pend) IN
         /\ processing' = [processing EXCEPT ![q] = TRUE]
         /\ queue' = [queue EXCEPT ![q] = AfterShift(pend)]
         /\ thunk' = [thunk EXCEPT ![q][t] = Running]
         /\ awaiting' = [awaiting EXCEPT ![q] = aw \cup {t}]
         /\ starts' = [starts EXCEPT ![q][t] = @ + 1]
         /\ op' = IF q \in Categories
                  THEN [op EXCEPT ![q] = BeginAttempt(browser, 0, "none")]
                  ELSE op

\* enqueue(task): push the entry, then processNext()
Push(q) ==
    /\ nEnq' = [nEnq EXCEPT ![q] = @ + 1]
    /\ ProcessNext(q, Append(queue[q], nEnq[q] + 1), processing[q], awaiting[q],
                   IF q \in Categories THEN op[q] ELSE Idle)
    /\ UNCHANGED <<deferred, settles>>
    /\ UNCHANGED <<svars, pages, call>>

Enqueue(q) == Push(q) /\ UNCHANGED pvars

\* the promise returned by a generic task() settles
ThunkFinish(q, t, outcome) ==
    /\ thunk[q][t].state = "running"
    /\ thunk' = [thunk EXCEPT ![q][t] = outcome]
    /\ UNCHANGED <<queue, processing, nEnq, deferred, awaiting, starts, settles>>
    /\ UNCHANGED <<svars, pages, op, call, pvars>>

\* processNext resumes after `await task()`: settle the entry's deferred
\* value, clear processing, processNext()
Continuation(q, t) ==
    /\ t \in awaiting[q]
    /\ thunk[q][t].state \in {"fulfilled", "rejected"}
    /\ deferred' = [deferred EXCEPT ![q][t] = Settle(thunk[q][t])]
    /\ settles' = [settles EXCEPT ![q][t] =
                      IF Settle(thunk[q][t]).state = "pending" THEN @ ELSE @ + 1]
    /\ ProcessNext(q, queue[q], Cleared(processing[q]), awaiting[q] \ {t}, Idle)
    /\ UNCHANGED nEnq
    /\ UNCHANGED <<svars, pages, call, pvars>>


\* ------------------------------------------------------------- Scraper

\* what the steps of a scrape invocation leave alone: the bookkeeping of
\* the queues and the lifecycle client
qframe == <<queue, processing, nEnq, deferred, awaiting, starts, settles, call, pvars>>

\* the queue entry whose thunk is the invocation category c is running
Cur(c) == CHOOSE t \in awaiting[c] : thunk[c][t].state = "running"

ScrapeResult == Fulfilled("result")

ScrapeError == Rejected(TRUE, "failure")

\* the error raised when the call the attempt is suspended at fails
RaisedKeepsCaught(c) ==
    IF op[c].err /= NoError THEN op[c].err ELSE <<op[c].pc, op[c].retryCount>>

Raised(c) == <<op[c].pc, op[c].retryCount>>

\* the invocation returns or throws v: its thunk settles
Finish(c, outcome, v) ==
    /\ thunk' = [thunk EXCEPT ![c][Cur(c)] = outcome]
    /\ op' = [op EXCEPT ![c].pc = "done", ![c].out = v]

\* the invocation throws the error of the call it is suspended at
Throw(c) == Finish(c, ScrapeError, Raised(c))

\* a browser step on the attempt's page can succeed only while the browser
\* that owns the page is running
PageAlive(c) == op[c].page \in live

\* browser.newPage() of category c succeeded on browser b
PageOpened(c, b) == [pages EXCEPT ![c][b] = @ + 1]

\* page.close() of category c succeeded on a page of browser b
PageClosed(c, b) == [pages EXCEPT ![c][b] = @ - 1]

\* browser b has closed: its pages are gone with it
BrowserGone(b) ==
    [c \in Categories |-> [x \in Browsers |-> IF x = b THEN 0 ELSE pages[c][x]]]

\* `if (this.isLoggedIn) return;` of login
LoginNeverSkipped(flag) == FALSE

LoginAlwaysSkipped(flag) == TRUE

LoginSkipped(flag) == flag

\* `if (retryCount < config.browser.maxRetries)` of the failure handlers
MayRetryNever(r) == FALSE

MayRetry(r) == r < maxRetries

\* `if (this.browser) return;` of initialize: does the call launch?
InitializeAlwaysLaunches(b) == TRUE

InitializeLaunches(b) == b = 0

\* `this.isLoggedIn = false` of close
LoggedInAfterClose(flag) == FALSE

\* `if (this.browser)` of close: does the call close a browser?
CloseCallsBrowser(b) == b /= 0

\* `throw error` of the catch block: the error caught, not one of its own
Rethrown(caught, own) == caught

\* the catch block is entered with the error of the failed step:
\* `await page.close()` is called
ToCatch(c) ==
    op' = [op EXCEPT ![c].pc = "closePageErr", ![c].err = Raised(c),
                     ![c].wait = "none", ![c].got = "none"]

\* initialize() at the start of an attempt: puppeteer.launch settles.  On
\* success this.browser is assigned and this.browser.newPage() is called; a
\* launch error leaves the invocation (it is outside the try block).
LaunchDone(c) ==
    /\ op[c].pc = "launch"
    /\ \/ /\ launched < MaxLaunches
          /\ launched' = launched + 1
          /\ browser' = launched + 1
          /\ live' = live \cup {launched + 1}
          /\ op' = [op EXCEPT ![c].pc = "newPage", ![c].target = launched + 1]
          /\ UNCHANGED <<thunk, server, isLoggedIn, loginRuns>>
       \/ /\ Throw(c)
          /\ UNCHANGED svars
    /\ UNCHANGED <<qframe, pages>>

\* `const page = await this.browser.newPage()` settles; a failure is outside
\* the try block.  On success the try block starts: setupRequestInterception,
\* setViewport and setUserAgent are awaited.
NewPageDone(c) ==
    /\ op[c].pc = "newPage"
    /\ \/ /\ op[c].target \in live
          /\ op' = [op EXCEPT ![c].pc = "setup", ![c].page = op[c].target,
                              ![c].target = 0, ![c].opened = @ + 1]
          /\ pages' = PageOpened(c, op[c].target)
          /\ UNCHANGED thunk
       \/ /\ Throw(c)
          /\ UNCHANGED pages
    /\ UNCHANGED <<qframe, svars>>

\* the page setup settles; on success login(page) is called: it returns at
\* once when isLoggedIn, else it starts the login procedure (navigation to
\* the login page, typing, submit)
SetupDone(c) ==
    /\ op[c].pc = "setup"
    /\ \/ /\ PageAlive(c)
          /\ IF LoginSkipped(isLoggedIn)
             THEN op' = [op EXCEPT ![c].pc = "navigate", ![c].login = "skipped"]
             ELSE op' = [op EXCEPT ![c].pc = "login", ![c].login = "ran"]
       \/ ToCatch(c)
    /\ UNCHANGED <<qframe, svars, pages, thunk>>

\* the login procedure ends: with no error indicator isLoggedIn = true and the
\* target navigation starts; with the indicator ("refused"), or when a step
\* failed, isLoggedIn = false and the error reaches the attempt's catch block
LoginDone(c) ==
    /\ op[c].pc = "login"
    /\ \/ /\ PageAlive(c)
          /\ isLoggedIn' = TRUE
          /\ loginRuns' = [loginRuns EXCEPT ![op[c].page] = @ + 1]
          /\ op' = [op EXCEPT ![c].pc = "navigate"]
       \/ /\ PageAlive(c)
          /\ isLoggedIn' = FALSE
          /\ loginRuns' = [loginRuns EXCEPT ![op[c].page] = @ + 1]
          /\ op' = [op EXCEPT ![c].pc = "closePageErr", ![c].err = Raised(c),
                              ![c].login = "refused"]
       \/ /\ isLoggedIn' = FALSE
          /\ UNCHANGED loginRuns
          /\ op' = [op EXCEPT ![c].pc = "closePageErr", ![c].err = Raised(c),
                              ![c].login = "failed"]
    /\ UNCHANGED <<qframe, pages, thunk, server, browser, live, launched>>

\* what an attempt awaits once the navigation to its target has succeeded:
\* getSuggestions the page.evaluate of its extraction, getPageContent and
\* getNetworkSvg the wait for the loading placeholder ("wait"), search its
\* typing, submit and waitForSelector('.search-results') ("require")
AfterNavigate(c) ==
    CASE c = "suggestions" -> "extract"
      [] c = "search" -> "require"
      [] OTHER -> "wait"

\* what follows a readiness wait: in getPageContent the settle delay; in
\* getNetworkSvg the waits for the graphic element and its layout
\* ("require"), then the settle delay; in search the extraction
AfterWait(c, step) ==
    CASE step = "wait" /\ c = "networkSvg" -> "require"
      [] step = "require" /\ c = "search" -> "extract"
      [] OTHER -> "settle"

\* is an error of this wait thrown on?  The placeholder wait sits in a
\* try/catch of its own that swallows it
FatalAlways(step) == TRUE

Fatal(step) == step /= "wait"

\* navigateAndWait(page, target) settles
NavigateDone(c) ==
    /\ op[c].pc = "navigate"
    /\ \/ /\ PageAlive(c)
          /\ op' = [op EXCEPT ![c].pc = AfterNavigate(c)]
       \/ ToCatch(c)
    /\ UNCHANGED <<qframe, svars, pages, thunk>>

\* a readiness wait settles: its condition was met in time ("passed") or
\* it was rejected, by its timeout or because the page is gone
\* ("timedOut")
WaitDone(c) ==
    /\ op[c].pc \in {"wait", "require"}
    /\ \E o \in {"passed", "timedOut"} :
          /\ o = "passed" => PageAlive(c)
          /\ op' = IF o = "timedOut" /\ Fatal(op[c].pc)
                   THEN [op EXCEPT ![c].pc = "closePageErr", ![c].err = Raised(c),
                                   ![c].wait = o]
                   ELSE [op EXCEPT ![c].pc = AfterWait(c, op[c].pc), ![c].wait = o]
    /\ UNCHANGED <<qframe, svars, pages, thunk>>

\* can the extraction of category c find nothing?  getPageContent returns ''
\* when the main section is absent, getNetworkSvg when the graphic is
\* (the other two operations are taken to find their content)
Extractions(c) ==
    IF c \in {"pageContent", "networkSvg"} THEN {"content", "empty"} ELSE {"content"}

\* the page.evaluate of the extraction settles; on success getSuggestions
\* calls page.close() at once, the other operations start the request delay
ExtractDone(c) ==
    /\ op[c].pc = "extract"
    /\ \/ /\ PageAlive(c)
          /\ \E g \in Extractions(c) :
                op' = [op EXCEPT ![c].pc = IF c = "suggestions" THEN "closePage"
                                                                ELSE "delay",
                                 ![c].got = g, ![c].wait = "none"]
       \/ ToCatch(c)
    /\ UNCHANGED <<qframe, svars, pages, thunk>>

\* a timer elapses: after the settle delay the extraction is called, after
\* the request delay page.close()
DelayDone(c) ==
    /\ op[c].pc \in {"settle", "delay"}
    /\ op' = [op EXCEPT ![c].pc = IF op[c].pc = "settle" THEN "extract" ELSE "closePage"]
    /\ UNCHANGED <<qframe, svars, pages, thunk>>

\* `if (!svgMarkup) throw` of getNetworkSvg, after its page.close()
EmptyIsError(c, g) == c = "networkSvg" /\ g = "empty"

\* the catch block was entered by that throw: the page is closed already
ClosedAlready(c) == op[c].err[1] = "empty"

\* `await page.close()` of the try block settles: the result is returned
\* (getNetworkSvg with an empty extraction throws instead, still inside the
\* try block), or the error reaches the catch block
ClosePageDone(c) ==
    /\ op[c].pc = "closePage"
    /\ \/ /\ PageAlive(c)
          /\ pages' = PageClosed(c, op[c].page)
          /\ IF EmptyIsError(c, op[c].got)
             THEN /\ op' = [op EXCEPT ![c].pc = "closePageErr", ![c].got = "none",
                                      ![c].err = <<"empty", op[c].retryCount>>,
                                      ![c].closeCalls = @ + 1]
                  /\ UNCHANGED thunk
             ELSE /\ thunk' = [thunk EXCEPT ![c][Cur(c)] = ScrapeResult]
                  /\ op' = [op EXCEPT ![c].pc = "done",
                                      ![c].out = <<"result", op[c].retryCount>>,
                                      ![c].closeCalls = @ + 1]
       \/ /\ op' = [op EXCEPT ![c].pc = "closePageErr", ![c].err = Raised(c),
                              ![c].wait = "none", ![c].got = "none",
                              ![c].closeCalls = @ + 1]
          /\ UNCHANGED <<thunk, pages>>
    /\ UNCHANGED <<qframe, svars>>

\* `await page.close()` of the catch block settles.  On success, below the
\* ceiling, close() is called: with a browser handle browser.close() is
\* awaited, with none initialize() calls puppeteer.launch.  At the ceiling the
\* attempt's error is thrown; a failing page.close() throws its own error
\* and leaves the page as it was.  On a page the try block has closed, the
\* call changes nothing, whether it resolves or rejects.
ClosePageErrDone(c) ==
    /\ op[c].pc = "closePageErr"
    /\ \/ /\ PageAlive(c)
          /\ pages' = IF ClosedAlready(c) THEN pages ELSE PageClosed(c, op[c].page)
          /\ IF MayRetry(op[c].retryCount)
             THEN /\ op' = [op EXCEPT ![c].page = 0,
                                      ![c].pc = IF CloseCallsBrowser(browser)
                                                THEN "closeBrowser"
                                                ELSE "relaunch",
                                      ![c].target = browser,
                                      ![c].closeCalls = @ + 1]
                  /\ UNCHANGED thunk
             ELSE /\ thunk' = [thunk EXCEPT ![c][Cur(c)] = ScrapeError]
                  /\ op' = [op EXCEPT ![c].pc = "done", ![c].page = 0,
                                      ![c].out = Rethrown(op[c].err, Raised(c)),
                                      ![c].closeCalls = @ + 1]
       \/ /\ thunk' = [thunk EXCEPT ![c][Cur(c)] = ScrapeError]
          /\ op' = [op EXCEPT ![c].pc = "done", ![c].out = Raised(c),
                              ![c].closeCalls = @ + 1]
          /\ UNCHANGED pages
    /\ UNCHANGED <<qframe, svars>>

\* `await this.browser.close()` of close() settles: on success
\* this.browser = null, this.isLoggedIn = false, and initialize() (no handle
\* now) calls puppeteer.launch; an error leaves the invocation
CloseBrowserDone(c) ==
    /\ op[c].pc = "closeBrowser"
    /\ \/ /\ live' = live \ {op[c].target}
          /\ pages' = BrowserGone(op[c].target)
          /\ browser' = 0
          /\ isLoggedIn' = LoggedInAfterClose(isLoggedIn)
          /\ op' = [op EXCEPT ![c].pc = "relaunch", ![c].target = 0,
                              ![c].teardowns = @ + 1]
          /\ UNCHANGED <<thunk, server, launched, loginRuns>>
       \/ /\ Throw(c)
          /\ UNCHANGED <<svars, pages>>
    /\ UNCHANGED qframe

\* initialize() of the failure handler: puppeteer.launch settles.  On success
\* this.browser is assigned and the operation calls itself with
\* retryCount + 1 (a handle exists, so newPage is called); a launch error
\* leaves the invocation
RelaunchDone(c) ==
    /\ op[c].pc = "relaunch"
    /\ \/ /\ launched < MaxLaunches
          /\ launched' = launched + 1
          /\ browser' = launched + 1
          /\ live' = live \cup {launched + 1}
          /\ op' = [op EXCEPT ![c] =
                      [BeginAttempt(launched + 1, op[c].retryCount + 1,
                                    FailedAlso(op[c].failedAt, op[c].err[1]))
                          EXCEPT !.opened = op[c].opened, !.teardowns = op[c].teardowns,
                                 !.relaunches = op[c].relaunches + 1]]
          /\ UNCHANGED <<thunk, server, isLoggedIn, loginRuns>>
       \/ /\ Throw(c)
          /\ UNCHANGED svars
    /\ UNCHANGED <<qframe, pages>>

\* startServer: `await scraper.initialize()` calls puppeteer.launch
StartServer ==
    /\ server = "constructed"
    /\ server' = "launching"
    /\ UNCHANGED <<qvars, op, browser, isLoggedIn, live, launched, loginRuns>>
    /\ UNCHANGED <<pages, call, pvars>>

\* the launch of startServer settles: app.listen, or process.exit(1)
ServerLaunchDone ==
    /\ server = "launching"
    /\ \/ /\ launched < MaxLaunches
          /\ launched' = launched + 1
          /\ browser' = launched + 1
          /\ live' = live \cup {launched + 1}
          /\ server' = "listening"
       \/ /\ server' = "failed"
          /\ UNCHANGED <<browser, live, launched>>
    /\ UNCHANGED <<qvars, op, isLoggedIn, loginRuns, pages, call, pvars>>

\* a valid request arrives at POST /search, GET /suggest or GET /page: its
\* handler enqueues the scraper call on the category's queue
Request(c) ==
    /\ server = "listening"
    /\ Enqueue(c)

\* requests received so far
Requests ==
    nEnq["search"] + nEnq["suggestions"] + nEnq["pageContent"] + nEnq["networkSvg"]

\* no request is being served
Quiet == \A c \in Categories : ~processing[c] /\ awaiting[c] = {}

\* ------------------------------------------------------------ GET /page

\* URLs are strings over a two-letter alphabet; the site prefix
\* ('https://www.northdata.de/' in the source) is a string of two letters
Chars == {"r", "x"}

Urls == UNION {[1..n -> Chars] : n \in 0..MaxUrlLen}

SitePrefix == <<"x", "r">>

\* String.prototype.startsWith
StartsWith(u, prefix) ==
    /\ Len(u) >= Len(prefix)
    /\ SubSeq(u, 1, Len(prefix)) = prefix

\* req.query.url: absent, a string, or an array or object ("other")
QueryValues ==
    {[kind |-> k, v |-> <<>>] : k \in {"absent", "other"}}
        \cup {[kind |-> "string", v |-> u] : u \in Urls}

\* the two checks of the handler: `!url || typeof url !== 'string'` and
\* `!url.startsWith('https://www.northdata.de/')`, either answered with 400
AcceptedAnyString(q) == q.kind = "string"

Accepted(q) ==
    /\ q.kind = "string"
    /\ q.v /= <<>>
    /\ StartsWith(q.v, SitePrefix)

\* rejected: the answers of status 400 given so far; calls: the calls of
\* getPageContent made; url: the url the last of them was given
NoRequests == [rejected |-> 0, calls |-> 0, url |-> <<>>]

\* a request arrives at GET /page with query value q: answered with 400, or
\* scraper.getPageContent(url) enqueued on pageContentQueue (the client sends
\* a request that passes the checks after the answer to its last one, one
\* that fails them at any time)
PageRequested ==
    /\ server = "listening"
    /\ \E q \in QueryValues :
          IF Accepted(q)
          THEN /\ Quiet
               /\ http.calls < MaxRequests
               /\ Push("pageContent")
               /\ http' = [http EXCEPT !.calls = @ + 1, !.url = q.v]
               /\ UNCHANGED <<net, san, typing>>
          ELSE /\ http.rejected < MaxRequests
               /\ http' = [http EXCEPT !.rejected = @ + 1]
               /\ UNCHANGED <<qvars, svars, pages, op, call, net, san, typing>>

\* ---------------------------------------------------- lifecycle client

\* A client that holds the exported scraper object and calls its public
\* initialize() and close() itself, one call at a time, between requests.
\* pc: the await the call is suspended at; kind: the method called last;
\* result: how that call ended; noop: it returned without a browser call;
\* target: the browser close() is closing; n: calls made so far
NoCall == [pc |-> "none", kind |-> "none", result |-> "none", noop |-> FALSE,
           target |-> 0, n |-> 0]

CallReady ==
    /\ server = "listening"
    /\ Quiet
    /\ call.pc = "none"
    /\ call.n < MaxCalls

\* initialize() is called: it returns at once when a handle exists, else
\* it calls puppeteer.launch
InitializeCall ==
    /\ CallReady
    /\ call' = IF InitializeLaunches(browser)
               THEN [NoCall EXCEPT !.pc = "launch", !.kind = "initialize",
                                   !.n = call.n + 1]
               ELSE [NoCall EXCEPT !.kind = "initialize", !.result = "returned",
                                   !.noop = TRUE, !.n = call.n + 1]
    /\ UNCHANGED <<qvars, svars, pages, op, pvars>>

\* puppeteer.launch of the client's initialize() settles: the handle is
\* stored, or the error is logged and thrown again
InitializeDone ==
    /\ call.pc = "launch"
    /\ \/ /\ launched < MaxLaunches
          /\ launched' = launched + 1
          /\ browser' = launched + 1
          /\ live' = live \cup {launched + 1}
          /\ call' = [call EXCEPT !.pc = "none", !.result = "returned"]
       \/ /\ call' = [call EXCEPT !.pc = "none", !.result = "raised"]
          /\ UNCHANGED <<browser, live, launched>>
    /\ UNCHANGED <<qvars, server, isLoggedIn, loginRuns, pages, op, pvars>>

\* close() is called: with a handle it awaits browser.close(), with none it
\* returns at once
CloseCall ==
    /\ CallReady
    /\ call' = IF CloseCallsBrowser(browser)
               THEN [NoCall EXCEPT !.pc = "closeBrowser", !.kind = "close",
                                   !.target = browser, !.n = call.n + 1]
               ELSE [NoCall EXCEPT !.kind = "close", !.result = "returned",
                                   !.noop = TRUE, !.n = call.n + 1]
    /\ UNCHANGED <<qvars, svars, pages, op, pvars>>

\* browser.close() of the client's close() settles: the handle and the
\* flag are cleared, or the error leaves close() with both as they were
CloseDone ==
    /\ call.pc = "closeBrowser"
    /\ \/ /\ live' = live \ {call.target}
          /\ pages' = BrowserGone(call.target)
          /\ browser' = 0
          /\ isLoggedIn' = LoggedInAfterClose(isLoggedIn)
          /\ call' = [call EXCEPT !.pc = "none", !.result = "returned", !.target = 0]
       \/ /\ call' = [call EXCEPT !.pc = "none", !.result = "raised", !.target = 0]
          /\ UNCHANGED <<browser, isLoggedIn, live, pages>>
    /\ UNCHANGED <<qvars, server, launched, loginRuns, op, pvars>>

\* the process has ended: it runs no invocation and no continuation any more
Exited ==
    /\ server' = "exited"
    /\ queue' = [q \in Queues |-> <<>>]
    /\ processing' = [q \in Queues |-> FALSE]
    /\ awaiting' = [q \in Queues |-> {}]
    /\ op' = [c \in Categories |-> Idle]
    /\ UNCHANGED <<nEnq, thunk, deferred, starts, settles>>

\* SIGINT or SIGTERM arrives (once): shutdown() calls scraper.close(), which
\* with a handle awaits browser.close(); with none it returns and
\* process.exit(0) follows
Shutdown ==
    /\ server = "listening"
    /\ call.kind = "none"
    /\ IF CloseCallsBrowser(browser)
       THEN /\ call' = [NoCall EXCEPT !.pc = "shutdown", !.kind = "close",
                                      !.target = browser]
            /\ UNCHANGED <<qvars, server, op>>
       ELSE /\ call' = [NoCall EXCEPT !.kind = "close", !.result = "returned",
                                      !.noop = TRUE]
            /\ Exited
    /\ UNCHANGED <<browser, isLoggedIn, live, launched, loginRuns, pages, pvars>>

\* browser.close() of the shutdown settles: the handle and the flag are
\* cleared and process.exit(0) ends the process; an error leaves shutdown()
\* as an unhandled rejection, which ends the process or only warns
ShutdownDone ==
    /\ call.pc = "shutdown"
    /\ \/ /\ live' = live \ {call.target}
          /\ pages' = BrowserGone(call.target)
          /\ browser' = 0
          /\ isLoggedIn' = LoggedInAfterClose(isLoggedIn)
          /\ call' = [call EXCEPT !.pc = "none", !.result = "returned", !.target = 0]
          /\ Exited
       \/ /\ call' = [call EXCEPT !.pc = "none", !.result = "raised", !.target = 0]
          /\ \/ Exited
             \/ UNCHANGED <<qvars, server, op>>
          /\ UNCHANGED <<browser, isLoggedIn, live, pages>>
    /\ UNCHANGED <<launched, loginRuns, pvars>>

\* ------------------------------------------------------ Network Filter

\* the blocked prefix ('https://api.rupt.dev' in the source) is a string
\* of two letters
BlockedPrefix == <<"r", "x">>

\* the calls one run of the 'request' listener makes on a request to u:
\* `return request.abort()` for a blocked URL, else request.continue()
DecideFallsThrough(u) ==
    IF StartsWith(u, BlockedPrefix) THEN [aborts |-> 1, continues |-> 1]
                                    ELSE [aborts |-> 0, continues |-> 1]

Decide(u) ==
    IF StartsWith(u, BlockedPrefix) THEN [aborts |-> 1, continues |-> 0]
                                    ELSE [aborts |-> 0, continues |-> 1]

\* `if (!page.listenerCount('request'))` of setupRequestInterception
NeedsListenerAlways(count) == TRUE

NeedsListener(count) == count = 0

\* A page as the filter sees it.  pc: the await a setupRequestInterception
\* call on the page is suspended at; listeners: page.listenerCount('request');
\* intercepting: setRequestInterception(true) has succeeded; setups: calls
\* of setupRequestInterception made so far; n: requests intercepted so far;
\* url, aborts, continues: the last of them and the calls the listeners
\* made on it
NoUrl == <<"-">>

NewPage == [pc |-> "idle", listeners |-> 0, intercepting |-> FALSE, setups |-> 0,
            n |-> 0, url |-> NoUrl, aborts |-> 0, continues |-> 0]

\* setupRequestInterception(page) is called (the callers await each call, so
\* no two overlap on a page): with a listener present it returns at once,
\* else it awaits page.setRequestInterception(true)
SetupCall ==
    /\ net.pc = "idle"
    /\ net.setups < MaxSetups
    /\ net' = [net EXCEPT !.setups = @ + 1,
                          !.pc = IF NeedsListener(net.listeners) THEN "intercepting"
                                                                 ELSE "idle"]
    /\ UNCHANGED <<qvars, svars, pages, op, call, san, http, typing>>

\* page.setRequestInterception(true) settles: on success page.on('request',
\* ...) attaches the listener; an error leaves the call with no listener
InterceptionDone ==
    /\ net.pc = "intercepting"
    /\ \/ net' = [net EXCEPT !.pc = "idle", !.intercepting = TRUE,
                             !.listeners = @ + 1]
       \/ net' = [net EXCEPT !.pc = "idle"]
    /\ UNCHANGED <<qvars, svars, pages, op, call, san, http, typing>>

\* the page issues a request to u while interception is on: every attached
\* listener runs on it
RequestIntercepted ==
    /\ net.intercepting
    /\ net.n < MaxIntercepts
    /\ \E u \in Urls :
          net' = [net EXCEPT !.n = @ + 1, !.url = u,
                             !.aborts = net.listeners * Decide(u).aborts,
                             !.continues = net.listeners * Decide(u).continues]
    /\ UNCHANGED <<qvars, svars, pages, op, call, san, http, typing>>

\* ----------------------------------------------- Content Sanitization

\* A DOM node: an element (tag, attribute names, children) or a text node
\* (tag "#text", its characters).  id: the node's place in the input tree, by
\* which a node of the output is traced back to it (0: made by the parser).
Elem(tag, attrs, kids) ==
    [id |-> 0, tag |-> tag, attrs |-> attrs, text |-> <<>>, kids |-> kids]

\* document.createTextNode(s), standing where node number id stood
TextNode(s, id) == [id |-> id, tag |-> "#text", attrs |-> {}, text |-> s, kids |-> <<>>]

\* attributes with a name starting with 'on'; the fixed set of the last pass
EventAttrs == {"onclick"}

FixedAttrs == {"href", "src", "id", "target", "rel"}

\* the inputs: an element carries no attribute or all of these
Marked == {"class", "style", "onclick", "href", "id", "title"}

\* elements serialized without an end tag
VoidTags == {"img", "input"}

\* tags the last whitespace rule matches (div|p|section|table|...)
BlockTags == {"div", "section"}

RECURSIVE Forests(_, _)

\* the sequences of sibling subtrees with n nodes in all: text nodes of one
\* character (a letter or a blank), childless script / style / img / button
\* elements, and div / svg / a elements with any children.  Below an svg
\* (inSvg) only what an HTML parser leaves there: text, script, style, a, svg.
Forests(n, inSvg) ==
    IF n = 0 THEN {<<>>}
    ELSE UNION {
           {<<t>> \o f :
              t \in (IF k = 1
                     THEN {TextNode(<<ch>>, 0) : ch \in {"t", " "}}
                          \cup {Elem(tag, a, <<>>) :
                                  tag \in {"script", "style"}
                                          \cup (IF inSvg THEN {} ELSE {"img", "button"}),
                                  a \in {{}, Marked}}
                     ELSE {})
                    \cup UNION {{Elem(tag, a, ks) :
                                   a \in {{}, Marked},
                                   ks \in Forests(k - 1, inSvg \/ tag = "svg")} :
                                tag \in {"svg", "a"} \cup (IF inSvg THEN {} ELSE {"div"})},
              f \in Forests(n - k, inSvg)} : k \in 1..n}

RECURSIVE Numbered(_, _)

\* the siblings ks with ids given in document order, the first being next
Numbered(ks, next) ==
    IF ks = <<>> THEN [kids |-> <<>>, next |-> next]
    ELSE LET inner == Numbered(Head(ks).kids, next + 1)
             rest == Numbered(Tail(ks), inner.next)
         IN [kids |-> <<[Head(ks) EXCEPT !.id = next, !.kids = inner.kids]>> \o rest.kids,
             next |-> rest.next]

\* the section found at /html/body/main/div/section: node 1 of the input
Inputs ==
    {Numbered(<<Elem("section", a, f)>>, 1).kids[1] :
        a \in {{}, Marked}, f \in UNION {Forests(n, FALSE) : n \in 0..MaxNodes}}

\* el.closest('svg') for an element whose ancestors include an svg (inSvg)
Closest(n, inSvg) == inSvg \/ n.tag = "svg"

RECURSIVE Remove(_, _, _, _)

\* querySelectorAll(tag).forEach(el => el.remove()) on the children ks;
\* with keep, `if (!el.closest('svg'))` guards the removal
Remove(ks, tag, keep, inSvg) ==
    IF ks = <<>> THEN <<>>
    ELSE LET n == Head(ks) IN
         (IF n.tag = tag /\ ~(keep /\ Closest(n, inSvg))
          THEN <<>>
          ELSE <<[n EXCEPT !.kids = Remove(n.kids, tag, keep, Closest(n, inSvg))]>>)
         \o Remove(Tail(ks), tag, keep, inSvg)

RECURSIVE StripAttrs(_, _, _, _)

\* el.removeAttribute(name) for the names given, on every element among the
\* descendants; with keep, not on elements inside an svg
StripAttrs(ks, names, keep, inSvg) ==
    IF ks = <<>> THEN <<>>
    ELSE LET n == Head(ks) IN
         <<[n EXCEPT !.attrs = IF keep /\ Closest(n, inSvg) THEN @ ELSE @ \ names,
                     !.kids = StripAttrs(n.kids, names, keep, Closest(n, inSvg))]>>
         \o StripAttrs(Tail(ks), names, keep, inSvg)

RECURSIVE TextContent(_)

\* the concatenated text of the nodes ks and their descendants
TextContent(ks) ==
    IF ks = <<>> THEN <<>>
    ELSE Head(ks).text \o TextContent(Head(ks).kids) \o TextContent(Tail(ks))

\* what stands in the place of link n afterwards
LinkUnwrapped(n) == n.kids

LinkReplacement(n) ==
    IF TextContent(n.kids) /= <<>> THEN <<TextNode(TextContent(n.kids), n.id)>> ELSE <<>>

RECURSIVE ReplaceLinks(_, _, _)

\* the forEach over querySelectorAll('a'); with keep, links inside an svg
\* are left
ReplaceLinks(ks, keep, inSvg) ==
    IF ks = <<>> THEN <<>>
    ELSE LET n == Head(ks) IN
         (IF n.tag = "a" /\ ~(keep /\ Closest(n, inSvg))
          THEN LinkReplacement(n)
          ELSE <<[n EXCEPT !.kids = ReplaceLinks(n.kids, keep, Closest(n, inSvg))]>>)
         \o ReplaceLinks(Tail(ks), keep, inSvg)

\* the passes over the clone, in the order of the source.  Every
\* querySelectorAll is called on the clone, so each pass reaches its
\* descendants and never the section element itself.  aware: the revision
\* with the `closest('svg')` guards (part_002) or without (src/scraper.ts).
Clean(root, aware) ==
    LET scripts == Remove(root.kids, "script", FALSE, FALSE)
        styles == Remove(scripts, "style", aware, FALSE)
        inline == StripAttrs(styles, {"style"}, aware, FALSE)
        classes == StripAttrs(inline, {"class"}, aware, FALSE)
        links == ReplaceLinks(classes, aware, FALSE)
        images == Remove(links, "img", FALSE, FALSE)
        buttons == Remove(images, "button", FALSE, FALSE)
        forms == Remove(buttons, "form", FALSE, FALSE)
        inputs == Remove(forms, "input", FALSE, FALSE)
        iframes == Remove(inputs, "iframe", FALSE, FALSE)
        events == StripAttrs(iframes, EventAttrs, FALSE, FALSE)
    IN [root EXCEPT !.kids = StripAttrs(events, FixedAttrs, aware, FALSE)]

\* Markup is a sequence of tokens: start tags (with the attributes), end
\* tags and the characters of the text
Token(kind, tag, attrs, ch) == [k |-> kind, tag |-> tag, attrs |-> attrs, c |-> ch]

IsSpace(t) == t.k = "char" /\ t.c = " "

IsTag(t) == t.k /= "char"

RECURSIVE Serialize(_)

\* outerHTML of the nodes ks, one after the other
Serialize(ks) ==
    IF ks = <<>> THEN <<>>
    ELSE LET n == Head(ks) IN
         (IF n.tag = "#text"
          THEN [i \in 1..Len(n.text) |-> Token("char", "", {}, n.text[i])]
          ELSE IF n.tag \in VoidTags
          THEN <<Token("open", n.tag, n.attrs, "")>>
          ELSE <<Token("open", n.tag, n.attrs, "")>> \o Serialize(n.kids)
               \o <<Token("close", n.tag, {}, "")>>)
         \o Serialize(Tail(ks))

RECURSIVE Collapse(_)

\* .replace(/\s+/g, ' ')
Collapse(ts) ==
    IF Len(ts) < 2 THEN ts
    ELSE IF IsSpace(ts[1]) /\ IsSpace(ts[2]) THEN Collapse(Tail(ts))
    ELSE <<Head(ts)>> \o Collapse(Tail(ts))

RECURSIVE SkipSpaces(_)

\* ts without its leading whitespace
SkipSpaces(ts) == IF ts /= <<>> /\ IsSpace(Head(ts)) THEN SkipSpaces(Tail(ts)) ELSE ts

RECURSIVE Reversed(_)

Reversed(ts) == IF ts = <<>> THEN <<>> ELSE Reversed(Tail(ts)) \o <<Head(ts)>>

RECURSIVE DropBetweenTags(_)

\* .replace(/>\s+</g, '><')
DropBetweenTags(ts) ==
    IF ts = <<>> THEN <<>>
    ELSE LET after == SkipSpaces(Tail(ts)) IN
         IF IsTag(Head(ts)) /\ after /= <<>> /\ IsTag(Head(after))
         THEN <<Head(ts)>> \o DropBetweenTags(after)
         ELSE <<Head(ts)>> \o DropBetweenTags(Tail(ts))

\* .replace(/^\s+/gm, '').replace(/\s+$/gm, '') on markup of one line
Trimmed(ts) == Reversed(SkipSpaces(Reversed(SkipSpaces(ts))))

RECURSIVE StripAroundBlocks(_)

\* .replace(/\s*(<\/?(?:div|p|section|...)[^>]*>)\s*/g, '$1')
StripAroundBlocks(ts) ==
    IF ts = <<>> THEN <<>>
    ELSE LET t == Head(SkipSpaces(ts)) IN
         IF SkipSpaces(ts) /= <<>> /\ IsTag(t) /\ t.tag \in BlockTags
         THEN <<t>> \o StripAroundBlocks(SkipSpaces(Tail(SkipSpaces(ts))))
         ELSE <<Head(ts)>> \o StripAroundBlocks(Tail(ts))

\* the string returned: outerHTML, then the whitespace rules in their order
\* (after the first there is no line break left, so .replace(/\n+/g, '\n')
\* finds nothing)
Html(root) ==
    StripAroundBlocks(Trimmed(DropBetweenTags(Collapse(Serialize(<<root>>)))))

RECURSIVE ParseKids(_)

\* the HTML parser on markup ts, up to the end tag of the enclosing element:
\* the nodes read and the markup left; adjacent characters make one text node
ParseKids(ts) ==
    IF ts = <<>> \/ Head(ts).k = "close" THEN [kids |-> <<>>, rest |-> ts]
    ELSE IF Head(ts).k = "char"
    THEN LET r == ParseKids(Tail(ts)) IN
         IF r.kids /= <<>> /\ Head(r.kids).tag = "#text"
         THEN [kids |-> <<TextNode(<<Head(ts).c>> \o Head(r.kids).text, 0)>> \o Tail(r.kids),
               rest |-> r.rest]
         ELSE [kids |-> <<TextNode(<<Head(ts).c>>, 0)>> \o r.kids, rest |-> r.rest]
    ELSE IF Head(ts).tag \in VoidTags
    THEN LET r == ParseKids(Tail(ts)) IN
         [kids |-> <<Elem(Head(ts).tag, Head(ts).attrs, <<>>)>> \o r.kids, rest |-> r.rest]
    ELSE LET inner == ParseKids(Tail(ts))
             r == ParseKids(Tail(inner.rest))
         IN [kids |-> <<Elem(Head(ts).tag, Head(ts).attrs, inner.kids)>> \o r.kids,
             rest |-> r.rest]

\* no sanitization run.  stage: "input" (a section to sanitize), "once"
\* (sanitized), "twice" (its output sanitized again); aware: the revision;
\* input: the section; clean: the clone after the passes; out: the string
\* returned; again: the string returned for out as input
NoRun == [stage |-> "none", aware |-> FALSE, input |-> <<>>, clean |-> <<>>,
          out |-> <<>>, again |-> <<>>]

\* page.evaluate of getPageContent on a page whose main section is san.input
Sanitize ==
    /\ san.stage = "input"
    /\ san' = [san EXCEPT !.stage = "once",
                          !.clean = Clean(san.input, san.aware),
                          !.out = Html(Clean(san.input, san.aware))]
    /\ UNCHANGED <<qvars, svars, pages, op, call, net, http, typing>>

\* the same on a page whose main section is the markup returned before
SanitizeAgain ==
    /\ san.stage = "once"
    /\ san' = [san EXCEPT !.stage = "twice",
                          !.again = Html(Clean(ParseKids(san.out).kids[1], san.aware))]
    /\ UNCHANGED <<qvars, svars, pages, op, call, net, http, typing>>

\* -------------------------------------------------------- typeHumanLike

\* the divisor of the delay expression
DelayDivisor == 8

\* Math.random() is one of 0/RandomSteps .. (RandomSteps - 1)/RandomSteps
Randoms == 0..(RandomSteps - 1)

\* Math.floor((Math.random() * (max - min + 1) + min) / 8), for the random
\* number k/RandomSteps
KeyDelay(k, min, max) ==
    (k * (max - min + 1) + min * RandomSteps) \div (DelayDivisor * RandomSteps)

Texts == UNION {[1..n -> Chars] : n \in 0..MaxText}

NoDelay == 0 - 1

\* pc: "click" (the click on the field awaited), "keys" (in the loop),
\* "done" or "failed"; isXPath: the selector starts with '/'; min, max:
\* config.browser.typingDelay; i: characters of text gone through; value:
\* the field's value; delay: the delay of the last keystroke
NoTyping == [pc |-> "none", isXPath |-> FALSE, min |-> 0, max |-> 0,
             text |-> <<>>, i |-> 0, value |-> <<>>, delay |-> NoDelay]

\* clickByXPath / page.click settles: the loop is entered, or the element
\* was not found or the click failed and the error is rethrown
TypeClickDone ==
    /\ typing.pc = "click"
    /\ \/ typing' = [typing EXCEPT !.pc = "keys"]
       \/ typing' = [typing EXCEPT !.pc = "failed"]
    /\ UNCHANGED <<qvars, svars, pages, op, call, net, san, http>>

\* one round of the loop: the delay is drawn, then the character is appended
\* to the field's value by page.evaluate (where the element is still there)
\* and the timer awaited, or typed by page.type with that delay; either call
\* may fail
Keystroke ==
    /\ typing.pc = "keys"
    /\ typing.i < Len(typing.text)
    /\ \E k \in Randoms, found \in BOOLEAN :
          LET d == KeyDelay(k, typing.min, typing.max)
              char == typing.text[typing.i + 1] IN
          \/ /\ found \/ typing.isXPath
             /\ typing' = [typing EXCEPT !.i = @ + 1, !.delay = d,
                              !.value = IF found THEN Append(@, char) ELSE @]
          \/ typing' = [typing EXCEPT !.pc = "failed", !.delay = d]
    /\ UNCHANGED <<qvars, svars, pages, op, call, net, san, http>>

\* the loop is left and the pause after typing is over
TypePauseDone ==
    /\ typing.pc = "keys"
    /\ typing.i = Len(typing.text)
    /\ typing' = [typing EXCEPT !.pc = "done"]
    /\ UNCHANGED <<qvars, svars, pages, op, call, net, san, http>>

\* ------------------------------------------------------- specifications

\* the state after the module is loaded: queues, scraper singleton, page
Constructed ==
    /\ net = NewPage
    /\ queue = [q \in Queues |-> <<>>]
    /\ processing = [q \in Queues |-> FALSE]
    /\ nEnq = [q \in Queues |-> 0]
    /\ thunk = [q \in Queues |-> [t \in Tasks |-> NotStarted]]
    /\ deferred = [q \in Queues |-> [t \in Tasks |-> Pending]]
    /\ awaiting = [q \in Queues |-> {}]
    /\ starts = [q \in Queues |-> [t \in Tasks |-> 0]]
    /\ settles = [q \in Queues |-> [t \in Tasks |-> 0]]
    /\ server = "constructed"
    /\ browser = 0
    /\ isLoggedIn = FALSE
    /\ live = {}
    /\ launched = 0
    /\ loginRuns = [b \in Browsers |-> 0]
    /\ pages = [c \in Categories |-> [b \in Browsers |-> 0]]
    /\ op = [c \in Categories |-> Idle]
    /\ call = NoCall
    /\ http = NoRequests

Init == san = NoRun /\ typing = NoTyping /\ Constructed

\* a page holding any of the bounded sections, served by either revision
InitSanitize ==
    /\ san \in {[NoRun EXCEPT !.stage = "input", !.aware = a, !.input = t] :
                   a \in BOOLEAN, t \in Inputs}
    /\ typing = NoTyping
    /\ Constructed

NextSanitize == Sanitize \/ SanitizeAgain

\* a call of typeHumanLike with any text, either kind of selector and any
\* configured delays min <= max
InitTyping ==
    /\ typing \in {[NoTyping EXCEPT !.pc = "click", !.isXPath = x, !.min = a,
                                     !.max = b, !.text = t] :
                      x \in BOOLEAN, a \in 0..MaxDelay, b \in 0..MaxDelay,
                      t \in Texts}
    /\ typing.min <= typing.max
    /\ san = NoRun
    /\ Constructed

NextTyping == TypeClickDone \/ Keystroke \/ TypePauseDone

SpecTyping == InitTyping /\ [][NextTyping]_vars

SpecSanitize == InitSanitize /\ [][NextSanitize]_vars

EnqueueGeneric ==
    /\ nEnq[Generic] < MaxTasks
    /\ Enqueue(Generic)

ThunkFinishGeneric == \E t \in Tasks, o \in ThunkOutcomes : ThunkFinish(Generic, t, o)

ContinuationGeneric == \E t \in Tasks : Continuation(Generic, t)

NextQueue ==
    \/ EnqueueGeneric
    \/ ThunkFinishGeneric
    \/ ContinuationGeneric

\* one Queue instance, any thunks, enqueue calls arriving at any time
SpecQueue == Init /\ [][NextQueue]_vars

\* the same, where every started thunk terminates and the runtime runs every
\* continuation that is ready
FairSpecQueue ==
    /\ SpecQueue
    /\ WF_vars(ThunkFinishGeneric)
    /\ WF_vars(ContinuationGeneric)

EnqueueRequest ==
    /\ Requests < MaxRequests
    /\ \E c \in Endpoints : Request(c)

\* a client that sends its next request after the answer to the last one
EnqueueRequestSeq ==
    /\ Quiet
    /\ EnqueueRequest

ContinuationScraper == \E c \in Categories, t \in Tasks : Continuation(c, t)

Next ==
    \/ StartServer
    \/ ServerLaunchDone
    \/ EnqueueRequest
    \/ ContinuationScraper
    \/ \E c \in Categories : LaunchDone(c)
    \/ \E c \in Categories : NewPageDone(c)
    \/ \E c \in Categories : SetupDone(c)
    \/ \E c \in Categories : LoginDone(c)
    \/ \E c \in Categories : NavigateDone(c)
    \/ \E c \in Categories : WaitDone(c)
    \/ \E c \in Categories : ExtractDone(c)
    \/ \E c \in Categories : DelayDone(c)
    \/ \E c \in Categories : ClosePageDone(c)
    \/ \E c \in Categories : ClosePageErrDone(c)
    \/ \E c \in Categories : CloseBrowserDone(c)
    \/ \E c \in Categories : RelaunchDone(c)

\* the server process: start-up, then requests of the three categories
\* arriving at any time
Spec == Init /\ [][Next]_vars

NextSeq ==
    \/ StartServer
    \/ ServerLaunchDone
    \/ EnqueueRequestSeq
    \/ ContinuationScraper
    \/ \E c \in Categories : LaunchDone(c)
    \/ \E c \in Categories : NewPageDone(c)
    \/ \E c \in Categories : SetupDone(c)
    \/ \E c \in Categories : LoginDone(c)
    \/ \E c \in Categories : NavigateDone(c)
    \/ \E c \in Categories : WaitDone(c)
    \/ \E c \in Categories : ExtractDone(c)
    \/ \E c \in Categories : DelayDone(c)
    \/ \E c \in Categories : ClosePageDone(c)
    \/ \E c \in Categories : ClosePageErrDone(c)
    \/ \E c \in Categories : CloseBrowserDone(c)
    \/ \E c \in Categories : RelaunchDone(c)

\* the server process serving one request at a time: no two invocations
\* overlap
SpecSeq == Init /\ [][NextSeq]_vars

\* A caller of getNetworkSvg: api.ts has no endpoint for it; the calls are
\* taken to arrive as those of the other operations do, through a queue of
\* their own, one request of any of the four operations at a time.
EnqueueRequestGraphic ==
    /\ Quiet
    /\ Requests < MaxRequests
    /\ \E c \in Categories : Request(c)

NextGraphic ==
    \/ StartServer
    \/ ServerLaunchDone
    \/ EnqueueRequestGraphic
    \/ ContinuationScraper
    \/ \E c \in Categories : LaunchDone(c)
    \/ \E c \in Categories : NewPageDone(c)
    \/ \E c \in Categories : SetupDone(c)
    \/ \E c \in Categories : LoginDone(c)
    \/ \E c \in Categories : NavigateDone(c)
    \/ \E c \in Categories : WaitDone(c)
    \/ \E c \in Categories : ExtractDone(c)
    \/ \E c \in Categories : DelayDone(c)
    \/ \E c \in Categories : ClosePageDone(c)
    \/ \E c \in Categories : ClosePageErrDone(c)
    \/ \E c \in Categories : CloseBrowserDone(c)
    \/ \E c \in Categories : RelaunchDone(c)

NextStop ==
    \/ StartServer
    \/ ServerLaunchDone
    \/ EnqueueRequestSeq
    \/ ContinuationScraper
    \/ Shutdown
    \/ ShutdownDone
    \/ \E c \in Categories : LaunchDone(c)
    \/ \E c \in Categories : NewPageDone(c)
    \/ \E c \in Categories : SetupDone(c)
    \/ \E c \in Categories : LoginDone(c)
    \/ \E c \in Categories : NavigateDone(c)
    \/ \E c \in Categories : WaitDone(c)
    \/ \E c \in Categories : ExtractDone(c)
    \/ \E c \in Categories : DelayDone(c)
    \/ \E c \in Categories : ClosePageDone(c)
    \/ \E c \in Categories : ClosePageErrDone(c)
    \/ \E c \in Categories : CloseBrowserDone(c)
    \/ \E c \in Categories : RelaunchDone(c)

NextPage ==
    \/ StartServer
    \/ ServerLaunchDone
    \/ PageRequested
    \/ ContinuationScraper
    \/ \E c \in Categories : LaunchDone(c)
    \/ \E c \in Categories : NewPageDone(c)
    \/ \E c \in Categories : SetupDone(c)
    \/ \E c \in Categories : LoginDone(c)
    \/ \E c \in Categories : NavigateDone(c)
    \/ \E c \in Categories : WaitDone(c)
    \/ \E c \in Categories : ExtractDone(c)
    \/ \E c \in Categories : DelayDone(c)
    \/ \E c \in Categories : ClosePageDone(c)
    \/ \E c \in Categories : ClosePageErrDone(c)
    \/ \E c \in Categories : CloseBrowserDone(c)
    \/ \E c \in Categories : RelaunchDone(c)

\* the server serving the requests of GET /page, those that pass the checks
\* one at a time
SpecPage == Init /\ [][NextPage]_vars

\* the server serving one request at a time until a termination signal
\* arrives, at any moment
SpecStop == Init /\ [][NextStop]_vars

\* the four operations, one invocation at a time
SpecGraphic == Init /\ [][NextGraphic]_vars

\* a browser call that is awaited settles / a continuation that is ready runs
StepSettles ==
    \/ ContinuationScraper
    \/ \E c \in Categories :
          \/ LaunchDone(c) \/ NewPageDone(c) \/ SetupDone(c) \/ LoginDone(c)
          \/ NavigateDone(c) \/ WaitDone(c) \/ ExtractDone(c) \/ DelayDone(c)
          \/ ClosePageDone(c) \/ ClosePageErrDone(c) \/ CloseBrowserDone(c)
          \/ RelaunchDone(c)

\* the same, where every browser step (launch, close, navigation, wait,
\* evaluate, timer) terminates and the runtime runs every ready continuation
FairSpecGraphic == SpecGraphic /\ WF_vars(StepSettles)

NextFilter ==
    \/ SetupCall
    \/ InterceptionDone
    \/ RequestIntercepted

\* one page, on which the filter setup runs any number of times, one call
\* after the other, and requests are intercepted at any time
SpecFilter == Init /\ [][NextFilter]_vars

\* the client's requests are page requests, each sent after the answer to
\* the last one and while no lifecycle call is in flight
EnqueueRequestSession ==
    /\ call.pc = "none"
    /\ Quiet
    /\ Requests < MaxRequests
    /\ Request("pageContent")

NextSession ==
    \/ StartServer
    \/ ServerLaunchDone
    \/ EnqueueRequestSession
    \/ ContinuationScraper
    \/ InitializeCall
    \/ InitializeDone
    \/ CloseCall
    \/ CloseDone
    \/ \E c \in Categories : LaunchDone(c)
    \/ \E c \in Categories : NewPageDone(c)
    \/ \E c \in Categories : SetupDone(c)
    \/ \E c \in Categories : LoginDone(c)
    \/ \E c \in Categories : NavigateDone(c)
    \/ \E c \in Categories : WaitDone(c)
    \/ \E c \in Categories : ExtractDone(c)
    \/ \E c \in Categories : DelayDone(c)
    \/ \E c \in Categories : ClosePageDone(c)
    \/ \E c \in Categories : ClosePageErrDone(c)
    \/ \E c \in Categories : CloseBrowserDone(c)
    \/ \E c \in Categories : RelaunchDone(c)

\* the server serving one request at a time, with a client that also
\* drives the session through initialize() and close() between requests
SpecSession == Init /\ [][NextSession]_vars

\* ------------------------------------------------------------ properties

\* entry t of queue q: task() was called / the deferred value has settled /
\* the promise task() returned has settled / the entry is in the pending list
Started(q, t) == starts[q][t] > 0

Settled(q, t) == deferred[q][t].state /= "pending"

Finished(q, t) == thunk[q][t].state \in {"fulfilled", "rejected"}

Executing(q, t) == thunk[q][t].state = "running"

InQueue(q, t) == \E i \in 1..Len(queue[q]) : queue[q][i] = t

\* control is back at the event loop: no processNext continuation of q is
\* ready to run
ObservationPoint(q) == \A t \in awaiting[q] : ~Finished(q, t)

\* C1: in every reachable state of one Queue instance, whatever the enqueue
\* calls and their timing, at most one thunk is executing (started and not
\* yet settled).
C1_AtMostOneThunkExecuting ==
    Cardinality({t \in Tasks : Executing(Generic, t)}) <= 1

\* C1's case: enqueue calls arrived while a thunk was executing.
C1_Witness ==
    /\ \E t \in Tasks : Executing(Generic, t)
    /\ Len(queue[Generic]) >= 2

\* C2: thunks start in the order they were enqueued (entry a is the a-th
\* enqueue call), and an earlier entry's deferred value has settled before a
\* later entry's thunk starts, whatever the earlier outcome.
C2_FifoStartAndSettle ==
    \A a, b \in Tasks :
        /\ (a < b /\ Started(Generic, b)) =>
               (Started(Generic, a) /\ Settled(Generic, a))
        /\ (a < b /\ Settled(Generic, b)) => Settled(Generic, a)

\* C2's case: the first thunk rejected, the second is executing, a third waits.
C2_Witness ==
    /\ thunk[Generic][1].state = "rejected"
    /\ Executing(Generic, 2)
    /\ queue[Generic] = <<3>>

\* C3: the deferred value of an entry settles exactly once and never before
\* its thunk finished; it is resolved with the thunk's value when the thunk
\* fulfils and rejected when the thunk rejects; and once the thunk has
\* finished it does not stay pending (every started thunk terminating and
\* the runtime running ready continuations).
C3_SettlesOnceWithOutcome ==
    /\ [](\A t \in Tasks :
            /\ settles[Generic][t] <= 1
            /\ Settled(Generic, t) <=> settles[Generic][t] = 1
            /\ Settled(Generic, t) => Finished(Generic, t)
            /\ (Settled(Generic, t) /\ thunk[Generic][t].state = "fulfilled") =>
                   /\ deferred[Generic][t].state = "resolved"
                   /\ deferred[Generic][t].v = thunk[Generic][t].v
            /\ (Settled(Generic, t) /\ thunk[Generic][t].state = "rejected") =>
                   /\ deferred[Generic][t].state = "rejected"
                   /\ deferred[Generic][t].isError
                   /\ deferred[Generic][t].v = thunk[Generic][t].v)
    /\ \A t \in Tasks : Finished(Generic, t) ~> Settled(Generic, t)

\* C3's case: one entry resolved with its thunk's value, another rejected
\* after its thunk threw a value that is no Error.
C3_Witness ==
    /\ deferred[Generic][1].state = "resolved"
    /\ deferred[Generic][1].v = "b"
    /\ thunk[Generic][2] = Rejected(FALSE, "a")
    /\ deferred[Generic][2].state = "rejected"

\* C4: size is the number of enqueued entries whose thunk has not started;
\* at every observation point (control at the event loop) isProcessing is
\* true exactly when one thunk is executing; and when the deferred value of
\* the last enqueued entry has settled, size = 0 and isProcessing = false.
C4_AccessorsReflectState ==
    /\ Len(queue[Generic]) =
           Cardinality({t \in Tasks : t <= nEnq[Generic] /\ ~Started(Generic, t)})
    /\ ObservationPoint(Generic) =>
           (processing[Generic] <=>
                Cardinality({t \in Tasks : Executing(Generic, t)}) = 1)
    /\ (nEnq[Generic] > 0 /\ Settled(Generic, nEnq[Generic])) =>
           (Len(queue[Generic]) = 0 /\ ~processing[Generic])

\* C4's case: several entries were enqueued and the last one has settled.
C4_Witness ==
    /\ nEnq[Generic] >= 2
    /\ Settled(Generic, nEnq[Generic])
    /\ Len(queue[Generic]) = 0
    /\ ~processing[Generic]

\* C5: every started thunk terminating, every enqueued entry eventually has
\* its thunk started and its deferred value settled, also behind a thunk
\* that rejected.
C5_EveryEntrySettles ==
    \A t \in Tasks :
        (nEnq[Generic] >= t) ~> (Started(Generic, t) /\ Settled(Generic, t))

\* C5's case: the first thunk rejected and the entry behind it was started.
C5_Witness ==
    /\ nEnq[Generic] >= 2
    /\ thunk[Generic][1].state = "rejected"
    /\ Settled(Generic, 1)
    /\ Started(Generic, 2)

\* C6: every enqueued entry is either still pending and never started, or
\* out of the pending list and started exactly once; the pending list holds
\* the entries in enqueue order, none twice.
C6_EachThunkInvokedOnce ==
    /\ \A t \in Tasks :
          IF t <= nEnq[Generic]
          THEN \/ InQueue(Generic, t) /\ starts[Generic][t] = 0
               \/ ~InQueue(Generic, t) /\ starts[Generic][t] = 1
          ELSE ~InQueue(Generic, t) /\ starts[Generic][t] = 0
    /\ \A i, j \in 1..Len(queue[Generic]) :
          i < j => queue[Generic][i] < queue[Generic][j]

\* C6's case: a thunk rejected, the next entry ran once, a later one waits.
C6_Witness ==
    /\ thunk[Generic][1].state = "rejected"
    /\ Settled(Generic, 1)
    /\ starts[Generic][2] = 1
    /\ InQueue(Generic, 3)

\* C7: in every reachable state at most one launched browser is live, no
\* browser is launched while another is live, and a live browser is the
\* session's current handle.
C7_AtMostOneLiveBrowser ==
    /\ Cardinality(live) <= 1
    /\ \A b \in live : b = browser

\* C8: in every reachable state isLoggedIn = true implies that the browser
\* handle is not null.
C8_AuthenticatedImpliesBrowser == isLoggedIn => browser /= 0

\* C9: for every browser session the login procedure is run at most once.
C9_LoginOncePerSession == \A b \in Browsers : loginRuns[b] <= 1

\* C10: when login(page) is called while isLoggedIn is true it starts no
\* login procedure (no navigation to the login page, no filter, no typing):
\* the attempt goes on to the target navigation, and the browser handle, the
\* flag, the live browsers and the login count are unchanged.
C10_LoginIsNoOpWhenAuthenticated ==
    [][\A c \in Categories :
          (/\ op[c].pc = "setup"
           /\ op'[c].pc \in {"login", "navigate"}
           /\ isLoggedIn) =>
              /\ op' = [op EXCEPT ![c].pc = "navigate", ![c].login = "skipped"]
              /\ UNCHANGED <<browser, isLoggedIn, live, launched, loginRuns>>]_vars

\* C10's case: an attempt whose login(page) returned at once is at its
\* target navigation.
C10_Witness ==
    \E c \in Categories :
        /\ op[c].pc = "navigate"
        /\ op[c].login = "skipped"
        /\ isLoggedIn
        /\ loginRuns[op[c].page] = 1

\* steps of the lifecycle client: initialize() / close() is called, its
\* launch / its browser.close() settles
InitializeCalled == call'.n = call.n + 1 /\ call'.kind = "initialize"

CloseCalled == call'.n = call.n + 1 /\ call'.kind = "close"

InitializeSettled == call.pc = "launch" /\ call'.pc = "none"

CloseSettled == call.pc = "closeBrowser" /\ call'.pc = "none"

\* C11: initialize() called while a browser handle exists launches nothing
\* and leaves the handle and the authenticated flag unchanged; called with no
\* handle it makes one launch call and stores the browser launched (no step
\* ever starts more than one browser, and a browser started is the one the
\* handle then holds); when the launch fails the call raises the error and
\* the handle stays null.
C11_InitializeIsIdempotent ==
    [][/\ (InitializeCalled /\ browser /= 0) =>
              /\ call'.pc = "none" /\ call'.result = "returned"
              /\ UNCHANGED <<browser, isLoggedIn, live, launched>>
       /\ (InitializeCalled /\ browser = 0) =>
              /\ call'.pc = "launch"
              /\ UNCHANGED <<browser, isLoggedIn, live, launched>>
       /\ (InitializeSettled /\ call'.result = "returned") =>
              /\ launched' = launched + 1
              /\ browser = 0 /\ browser' = launched'
              /\ live' = live \cup {launched'}
              /\ UNCHANGED isLoggedIn
       /\ (InitializeSettled /\ call'.result /= "returned") =>
              /\ call'.result = "raised"
              /\ browser = 0 /\ browser' = 0
              /\ UNCHANGED <<isLoggedIn, live, launched>>
       /\ launched' /= launched =>
              (launched' = launched + 1 /\ browser' = launched')]_vars

\* C11's case: initialize() was called on a session that holds a browser
\* and is authenticated, and has returned.
C11_Witness ==
    /\ call.kind = "initialize" /\ call.noop /\ call.result = "returned"
    /\ browser /= 0
    /\ isLoggedIn

\* C12: when close() completes (the close() of a failure handler or of the
\* client, whether it closed a browser or found none), the browser handle is
\* null and authenticated is false; called with no handle, close() makes no
\* browser call and changes nothing.
C12_CloseLeavesSessionClosed ==
    [][/\ \A c \in Categories :
              (op[c].pc \in {"closePageErr", "closeBrowser"} /\ op'[c].pc = "relaunch")
                  => (browser' = 0 /\ ~isLoggedIn')
       /\ (CloseSettled /\ call'.result = "returned") =>
              (browser' = 0 /\ ~isLoggedIn')
       /\ (CloseCalled /\ browser = 0) =>
              /\ call'.pc = "none" /\ call'.result = "returned"
              /\ browser' = 0 /\ ~isLoggedIn'
              /\ UNCHANGED <<svars, pages>>]_vars

\* category c has an invocation in progress
InFlight(c) == op[c].pc \notin {"idle", "done"}

\* this step starts a new invocation of category c
Invoked(c) == ~InFlight(c) /\ InFlight(c)'

\* this step is the recursive call of category c's failure handler
Retried(c) == op[c].pc = "relaunch" /\ InFlight(c)' /\ op'[c].pc /= "relaunch"

\* C13: the retry counter of an invocation starts at 0, grows by exactly 1
\* on each retry and by nothing else, never exceeds maxRetries, and every
\* new invocation starts at 0 whatever the invocations before it did.
C13_RetryCounterBounded ==
    /\ [](\A c \in Categories : op[c].retryCount \in 0..maxRetries)
    /\ [][\A c \in Categories :
            /\ Invoked(c) => op'[c].retryCount = 0
            /\ Retried(c) => op'[c].retryCount = op[c].retryCount + 1
            /\ (InFlight(c) /\ InFlight(c)' /\ ~Retried(c)) =>
                   op'[c].retryCount = op[c].retryCount]_vars

\* C13's case: the first invocation of a category used every retry (one
\* relaunch each) and was rejected, and the second one is running its first
\* attempt with counter 0.
C13_Witness ==
    \E c \in Categories :
        /\ thunk[c][1].state = "rejected"
        /\ launched = maxRetries + 1
        /\ thunk[c][2].state = "running"
        /\ op[c].pc = "setup"
        /\ op[c].retryCount = 0

\* category c's invocation has returned the result of its attempt number r
\* (processNext has not resumed yet)
Returned(c, r) ==
    /\ op[c].pc = "done"
    /\ op[c].out = <<"result", r>>
    /\ \E t \in awaiting[c] : thunk[c][t] = ScrapeResult

\* C14: an invocation whose first k >= 1 attempts all failed at navigation
\* and whose next attempt succeeded returns the result of that attempt,
\* number k; on return the browser handle is the browser that attempt ran on
\* (the one its failure handler launched after the k-th failure), and
\* authenticated is true because that attempt ran login on it.
C14_SucceedsAfterRetries ==
    \A c \in Categories :
        (/\ op[c].pc = "done" /\ op[c].out[1] = "result"
         /\ op[c].retryCount >= 1 /\ op[c].failedAt = "navigate") =>
            /\ Returned(c, op[c].retryCount)
            /\ browser = op[c].page
            /\ browser \in live
            /\ isLoggedIn
            /\ op[c].login = "ran"
            /\ loginRuns[browser] = 1

\* pages of category c that are open
OpenPages(c) == {b \in Browsers : pages[c][b] > 0}

\* category c's invocation has thrown (processNext has not resumed yet)
Thrown(c) ==
    /\ op[c].pc = "done"
    /\ op[c].out[1] /= "result"

\* C15: when an invocation has failed in every attempt and rejects, the
\* error it rejects with is the error its last attempt raised (the one the
\* catch block of that attempt caught, when it caught one), unchanged; no
\* page the invocation opened is still open, and no browser other than the
\* session's current handle is live.
C15_LastErrorSurfacesUnchanged ==
    \A c \in Categories :
        Thrown(c) =>
            /\ op[c].err /= NoError => op[c].out = op[c].err
            /\ OpenPages(c) = {}
            /\ live \subseteq {browser}

\* C16: a category has a page open only while an attempt of its invocation
\* is between newPage and the page.close() of its exit path: none once the
\* attempt has returned, thrown, or handed over to the teardown of a retry;
\* so at most one page of a category is open at any time.
C16_PageClosedOnEveryExit ==
    \A c \in Categories :
        /\ op[c].pc \in {"idle", "done", "launch", "newPage", "closeBrowser", "relaunch"}
               => OpenPages(c) = {}
        /\ \A b \in Browsers : pages[c][b] <= 1
        /\ Cardinality(OpenPages(c)) <= 1

\* C17: between a failed attempt with counter below the ceiling and the next
\* attempt of the invocation: the handler's page.close() closes the page,
\* then close() leaves the session closed (handle null, authenticated
\* false), then a new browser is launched and stored, then the next attempt
\* starts on it with counter + 1, and a next attempt starts in no other way;
\* when no other category has been in flight (the invocation is the only
\* one so far) that attempt starts with authenticated false and runs login
\* again.
C17_TeardownThenRelaunchThenRetry ==
    [][\A c \in Categories :
          /\ (op[c].pc /= "closeBrowser" /\ op'[c].pc = "closeBrowser") =>
                 op[c].pc = "closePageErr"
          /\ (op[c].pc = "closePageErr" /\ op'[c].pc \in {"closeBrowser", "relaunch"}) =>
                 /\ op[c].retryCount < maxRetries
                 /\ pages'[c][op[c].page] = pages[c][op[c].page] - 1
          /\ (op[c].pc /= "relaunch" /\ op'[c].pc = "relaunch") =>
                 /\ op[c].pc \in {"closePageErr", "closeBrowser"}
                 /\ browser' = 0
                 /\ ~isLoggedIn'
          /\ Retried(c) =>
                 /\ launched' = launched + 1
                 /\ browser' = launched' /\ browser' \in live'
                 /\ op'[c].pc = "newPage" /\ op'[c].target = browser'
                 /\ op'[c].retryCount = op[c].retryCount + 1
          /\ (InFlight(c) /\ op'[c].retryCount > op[c].retryCount) => Retried(c)
          /\ (Retried(c) /\ Requests = 1) => ~isLoggedIn'
          /\ (/\ op[c].pc = "setup" /\ op'[c].pc \in {"login", "navigate"}
              /\ op[c].retryCount >= 1 /\ Requests = 1) =>
                 op'[c].pc = "login"]_vars

\* C18: a browser launch failure in an invocation whose retry counter is
\* below the ceiling leads to another attempt; the invocation throws a
\* launch error (of the launch at the start of an attempt or of the relaunch
\* in the failure handler) only with the ceiling exhausted.
C18_LaunchFailureIsRetried ==
    \A c \in Categories :
        (Thrown(c) /\ op[c].out[1] \in {"launch", "relaunch"}) =>
            op[c].out[2] >= maxRetries

C20_DelayBeforePageClose ==
    [][\A c \in Categories :
          /\ (op[c].pc /= "closePage" /\ op'[c].pc = "closePage") => op[c].pc = "delay"
          /\ (op[c].pc /= "delay" /\ op'[c].pc = "delay") => op[c].pc = "extract"]_vars

\* the steps of an attempt during which its page is open
PageSteps ==
    {"setup", "login", "navigate", "wait", "require", "settle", "extract", "delay",
     "closePage", "closePageErr"}

\* C21: operations of different categories are in flight at the same time on
\* the one session (the witness), never two of the same category: a category
\* has at most one thunk running, the one its invocation record belongs to;
\* and the browser.close() of a failure handler, when it completes, ends the
\* browser it was called on and clears authenticated whatever the other
\* categories are doing, so that it can leave another category's operation
\* with its page on a browser that is gone (the witness).
C21_CrossCategoryOverlapOnly ==
    /\ [](\A c \in Categories :
            /\ Cardinality({t \in Tasks : thunk[c][t].state = "running"}) <= 1
            /\ InFlight(c) => \E t \in awaiting[c] : thunk[c][t].state = "running")
    /\ [][\A c \in Categories :
            (op[c].pc = "closeBrowser" /\ op'[c].pc = "relaunch") =>
                /\ op[c].target \notin live'
                /\ ~isLoggedIn'
                /\ \A d \in Categories : pages'[d][op[c].target] = 0]_vars

\* C21's case: a search and a page-content operation are in flight together;
\* the failure handler of one has closed the browser and cleared
\* authenticated while the attempt of the other is past its login on a page
\* of that browser.
C21_Witness ==
    \E c, d \in Categories :
        /\ c /= d
        /\ op[c].pc = "relaunch"
        /\ op[d].pc \in {"navigate", "wait", "extract", "delay"}
        /\ op[d].login = "ran"
        /\ op[d].page /= 0 /\ op[d].page \notin live
        /\ ~isLoggedIn
        /\ browser = 0

\* the steps from which an attempt can enter step s, by the order session ->
\* login -> navigation -> readiness wait -> extraction -> page close
Before(s) ==
    CASE s = "setup" -> {"newPage"}
      [] s = "login" -> {"setup"}
      [] s = "navigate" -> {"setup", "login"}
      [] s = "wait" -> {"navigate"}
      [] s = "require" -> {"navigate", "wait"}
      [] s = "settle" -> {"wait", "require"}
      [] s = "extract" -> {"navigate", "require", "settle"}
      [] s = "delay" -> {"extract"}
      [] s = "closePage" -> {"extract", "delay"}
      [] OTHER -> {}

\* C26: in every attempt of every operation the steps occur in the order
\* session exists -> login ensured -> navigation to the target -> readiness
\* wait -> extraction -> page close -> return: newPage is called on the
\* session's browser handle, which is not null; every later step of the try
\* block is entered only from a step before it in that order (a step that
\* an operation does not have is passed over, none is taken early or
\* twice); login(page) runs its procedure only when authenticated is
\* false; the navigation to the target is called with authenticated true;
\* the extraction is called only once that navigation (and the waits after
\* it) succeeded; and a result is returned only by the step that closes the
\* page.
C26_StepsInOrder ==
    [][\A c \in Categories :
          /\ (op'[c].pc = "newPage" /\ op'[c] /= op[c]) =>
                 (browser' /= 0 /\ op'[c].target = browser')
          /\ (op'[c].pc /= op[c].pc /\ Before(op'[c].pc) /= {}) =>
                 (op[c].pc \in Before(op'[c].pc) /\ op'[c].retryCount = op[c].retryCount)
          /\ (op'[c].pc = "login" /\ op[c].pc /= "login") => ~isLoggedIn
          /\ (op'[c].pc = "navigate" /\ op[c].pc /= "navigate") => isLoggedIn'
          /\ (op'[c].pc = "done" /\ op[c].pc /= "done" /\ op'[c].out[1] = "result") =>
                 (op[c].pc = "closePage" /\ op'[c].out[2] = op[c].retryCount)]_vars

\* C26's case: the second attempt of a page-content invocation ran login,
\* went through every step and has returned its result; a search had
\* completed before it.
C26_Witness ==
    /\ op["pageContent"].pc = "done"
    /\ op["pageContent"].out = <<"result", 1>>
    /\ op["pageContent"].login = "ran"
    /\ op["pageContent"].got = "content"
    /\ deferred["search"][1].state = "resolved"

\* C27: a timeout (or other rejection) of the best-effort wait for the
\* loading placeholder, which only getPageContent and getNetworkSvg make,
\* does not fail the attempt and uses no retry: the attempt goes on (in
\* getPageContent to the settle delay and from there to the extraction, in
\* getNetworkSvg to the required waits) with the same retry counter and no
\* error caught; a timeout of a required wait (search results present,
\* graphic present and populated) fails the attempt: its error enters the
\* catch block, and the attempt gets past a required wait only if the wait
\* passed.
C27_OnlyRequiredWaitsFail ==
    [][\A c \in Categories :
          /\ (op[c].pc = "wait" /\ op'[c].pc /= "wait") =>
                 /\ c \in {"pageContent", "networkSvg"}
                 /\ op'[c].wait \in {"passed", "timedOut"}
                 /\ op'[c].pc = IF c = "pageContent" THEN "settle" ELSE "require"
                 /\ op'[c].retryCount = op[c].retryCount
                 /\ op'[c].err = NoError
          /\ (op[c].pc = "settle" /\ op'[c].pc /= "settle") =>
                 (op'[c].pc = "extract" /\ op'[c].wait = op[c].wait)
          /\ (op[c].pc = "require" /\ op'[c].pc /= "require") =>
                 /\ c \in {"search", "networkSvg"}
                 /\ IF op'[c].wait = "timedOut"
                    THEN /\ op'[c].pc = "closePageErr"
                         /\ op'[c].err = <<"require", op[c].retryCount>>
                    ELSE /\ op'[c].wait = "passed"
                         /\ op'[c].pc = IF c = "search" THEN "extract" ELSE "settle"]_vars

\* C27's case: the placeholder wait of a first page-content attempt has
\* timed out, the settle delay has elapsed and the extraction is running;
\* before that, a graphic-export request was rejected.
C27_Witness ==
    /\ op["pageContent"].pc = "extract"
    /\ op["pageContent"].wait = "timedOut"
    /\ op["pageContent"].retryCount = 0
    /\ deferred["networkSvg"][1].state = "rejected"

\* C28: when the extraction finds nothing, getPageContent does not fail: the
\* attempt goes on to the request delay and, once its page is closed,
\* returns its (empty) result with the retry counter unchanged;
\* getNetworkSvg never returns an empty result: with an empty extraction the
\* attempt fails once its page is closed, and its failure handler then
\* retries when the counter is below the ceiling and throws that error
\* when it is not.
C28_EmptyExtraction ==
    [][\A c \in Categories :
          /\ (c = "pageContent" /\ op[c].pc = "extract" /\ op'[c].got = "empty") =>
                 (op'[c].pc = "delay" /\ op'[c].retryCount = op[c].retryCount)
          /\ (/\ c = "pageContent" /\ op[c].pc = "closePage" /\ op[c].got = "empty"
              /\ pages'[c][op[c].page] < pages[c][op[c].page]) =>
                 /\ op'[c].pc = "done"
                 /\ op'[c].out = <<"result", op[c].retryCount>>
                 /\ op'[c].got = "empty"
          /\ (/\ c = "networkSvg" /\ op[c].pc /= "done" /\ op'[c].pc = "done"
              /\ op'[c].out[1] = "result") =>
                 op[c].got = "content"
          /\ (/\ c = "networkSvg" /\ op[c].pc = "closePage" /\ op[c].got = "empty"
              /\ pages'[c][op[c].page] < pages[c][op[c].page]) =>
                 /\ op'[c].pc = "closePageErr"
                 /\ op'[c].err = <<"empty", op[c].retryCount>>
          /\ (/\ c = "networkSvg" /\ op[c].pc = "closePageErr" /\ op[c].err[1] = "empty"
              /\ op'[c].pc /= "closePageErr") =>
                 IF op[c].retryCount < maxRetries
                 THEN op'[c].pc \in {"closeBrowser", "relaunch"}
                 ELSE op'[c].pc = "done" /\ op'[c].out = op[c].err]_vars

\* C29: every request intercepted on a page with the filter installed gets
\* exactly one decision: one abort() and no continue() when its URL starts
\* with the blocked prefix, one continue() and no abort() otherwise.
C29_OneDecisionPerRequest ==
    (net.url /= NoUrl /\ net.listeners >= 1) =>
        /\ net.aborts + net.continues = 1
        /\ net.aborts = 1 <=> StartsWith(net.url, BlockedPrefix)
        /\ net.continues = 1 <=> ~StartsWith(net.url, BlockedPrefix)

\* C29's case: after the setup has run twice on the page, a request to a URL
\* that is longer than the blocked prefix and starts with it was aborted.
C29_Witness ==
    /\ net.setups >= 2
    /\ net.listeners = 1
    /\ Len(net.url) > Len(BlockedPrefix)
    /\ StartsWith(net.url, BlockedPrefix)
    /\ net.aborts = 1 /\ net.continues = 0

\* C30: a page never has more than one request listener of the filter,
\* however many times the setup runs on it: a setup call that finds a
\* listener returns at once and attaches nothing, and a listener is attached
\* only to a page that has none.
C30_AtMostOneListener ==
    /\ [](net.listeners <= 1)
    /\ [][/\ (net'.setups /= net.setups /\ net.listeners >= 1) =>
                 (net'.pc = "idle" /\ net'.listeners = net.listeners)
          /\ net'.listeners /= net.listeners =>
                 (net.listeners = 0 /\ net'.listeners = 1)]_vars

\* C30's case: the setup has run on the page as often as the bound allows,
\* every call has returned, and the page has its one listener.
C30_Witness ==
    /\ net.setups = MaxSetups
    /\ net.pc = "idle"
    /\ net.listeners = 1

RECURSIVE Nodes(_, _)

\* every node among ks and below them, each with whether it lies in the
\* subtree of an svg element (the element itself included)
Nodes(ks, inSvg) ==
    IF ks = <<>> THEN {}
    ELSE LET n == Head(ks) IN
         {[id |-> n.id, tag |-> n.tag, attrs |-> n.attrs, text |-> n.text,
           content |-> TextContent(n.kids), svg |-> Closest(n, inSvg)]}
         \cup Nodes(n.kids, Closest(n, inSvg)) \cup Nodes(Tail(ks), inSvg)

\* the nodes of the section before the passes, and of the clone after them
InputNodes == Nodes(<<san.input>>, FALSE)

CleanElements == {n \in Nodes(<<san.clean>>, FALSE) : n.tag /= "#text"}

InputNode(id) == CHOOSE n \in InputNodes : n.id = id

C22_ClassAndStyleOutsideSvgOnly ==
    san.stage /= "input" /\ san.stage /= "none" =>
        /\ \A e \in CleanElements :
              e.attrs \cap {"class", "style"} =
                 IF e.svg THEN InputNode(e.id).attrs \cap {"class", "style"} ELSE {}
        /\ \A e \in InputNodes :
              e.tag = "style" => (e.svg <=> \E k \in CleanElements : k.id = e.id)

\* C23: after sanitization no hyperlink of the section is left, a text node
\* carrying a link's text stands for each link with text that was a child of
\* the section, none for one without text, and no script, image, button,
\* form, input or frame element is left.
C23_LinksAndActiveElementsGone ==
    san.stage /= "input" /\ san.stage /= "none" =>
        /\ \A e \in CleanElements :
              e.tag \notin {"a", "script", "img", "button", "form", "input", "iframe"}
        /\ \A i \in 1..Len(san.input.kids) :
              LET link == san.input.kids[i] IN
              link.tag = "a" =>
                 (TextContent(link.kids) /= <<>> <=>
                    \E j \in 1..Len(san.clean.kids) :
                       san.clean.kids[j] = TextNode(TextContent(link.kids), link.id))

\* C25: after sanitization no element outside an svg subtree has an
\* event-handler attribute or href, src, id, target or rel, and every
\* element of an svg subtree has exactly the attributes it had.
C25_ListedAttributesOutsideSvgOnly ==
    san.stage /= "input" /\ san.stage /= "none" =>
        \A e \in CleanElements :
           IF e.svg THEN e.attrs = InputNode(e.id).attrs
           ELSE e.attrs \cap (EventAttrs \cup FixedAttrs) = {}

\* C38: in every attempt of every operation page.close() is called exactly
\* once on the attempt's page: never twice, and once when the attempt is
\* over (the invocation has returned or thrown after opening the page, or
\* its failure handler has gone on to the teardown).
C38_PageClosedExactlyOnce ==
    \A c \in Categories :
        /\ op[c].closeCalls <= 1
        /\ (op[c].pc \in {"closeBrowser", "relaunch"}
              \/ (op[c].pc = "done" /\ op[c].out[1] \notin {"launch", "newPage"}))
           => op[c].closeCalls = 1

\* the invocation of category c has thrown the error its last attempt caught:
\* every attempt failed inside the try block and every step of the failure
\* handlers succeeded
FailedInGuardedRegion(c) ==
    /\ op[c].pc = "done"
    /\ op[c].err /= NoError
    /\ op[c].out = op[c].err

\* C34: an invocation whose every attempt fails inside the guarded region
\* makes exactly maxRetries + 1 attempts (the last with counter maxRetries),
\* opens exactly maxRetries + 1 pages and tears down and relaunches the
\* browser exactly maxRetries times.
C34_AttemptsPagesTeardowns ==
    \A c \in Categories :
        FailedInGuardedRegion(c) =>
            /\ op[c].retryCount = maxRetries
            /\ op[c].opened = maxRetries + 1
            /\ op[c].teardowns = maxRetries
            /\ op[c].relaunches = maxRetries

\* C35: when close() calls of operations of different categories overlap
\* with each other or with initialize(), no browser has browser.close()
\* pending on it from two close() calls, and a close() that completes clears
\* the handle of the browser it closed, never that of another browser (one
\* the other operation has launched since and that is still running).
C35_CloseClearsOwnHandleOnly ==
    /\ [](\A c, d \in Categories :
            (c /= d /\ op[c].pc = "closeBrowser" /\ op[d].pc = "closeBrowser")
               => op[c].target /= op[d].target)
    /\ [][\A c \in Categories :
            (op[c].pc = "closeBrowser" /\ op'[c].pc = "relaunch")
               => browser \in {0, op[c].target}]_vars

\* a call made outside the try block of an attempt of category c has failed
\* in this step: browser.newPage() without a page opened, the page.close()
\* of the failure handler without the page closed, or the browser.close() of
\* close() without the browser gone
FailedOutside(c) ==
    /\ op'[c] /= op[c]
    /\ \/ op[c].pc = "newPage" /\ pages' = pages
       \/ op[c].pc = "closePageErr" /\ ~ClosedAlready(c) /\ pages' = pages
       \/ op[c].pc = "closeBrowser" /\ op[c].target \in live /\ live' = live

\* C36: a failure of a step outside the guarded region (opening the page,
\* or closing the page or the session in the failure handler) ends the
\* invocation in that step with the error of the failed call, whatever the
\* retry counter: the counter stays, the invocation's promise is rejected,
\* and the error the attempt had caught is not the one thrown.
C36_FailureOutsideEndsInvocation ==
    [][\A c \in Categories :
          FailedOutside(c) =>
             /\ op'[c].pc = "done"
             /\ op'[c].retryCount = op[c].retryCount
             /\ op'[c].out = <<op[c].pc, op[c].retryCount>>
             /\ op'[c].out /= op[c].err
             /\ thunk'[c][Cur(c)] = ScrapeError]_vars

\* C36's case: the first attempt of a page-content invocation failed at its
\* navigation, the page.close() of the handler failed, and the invocation
\* has thrown that error with the counter at 0, after a suggestions request
\* that was rejected.
C36_Witness ==
    /\ op["pageContent"].pc = "done"
    /\ op["pageContent"].err = <<"navigate", 0>>
    /\ op["pageContent"].out = <<"closePageErr", 0>>
    /\ MayRetry(op["pageContent"].retryCount)
    /\ \E t \in awaiting["pageContent"] : thunk["pageContent"][t] = ScrapeError
    /\ deferred["suggestions"][1].state = "rejected"

\* C37: when an invocation fails with the ceiling exhausted the session is
\* left as it was when the last attempt failed: the last step of the handler
\* changes neither the browser handle nor the authenticated flag, the
\* browser is still running under the handle when the invocation has
\* thrown, authenticated is still true if the login of the last attempt had
\* succeeded, and an invocation that starts with a handle present opens its
\* page on that browser without a launch.
C37_SessionKeptAtCeiling ==
    /\ [](\A c \in Categories :
            FailedInGuardedRegion(c) =>
               /\ browser /= 0
               /\ browser \in live
               /\ op[c].login \in {"ran", "skipped"} => isLoggedIn)
    /\ [][\A c \in Categories :
            /\ (op[c].pc = "closePageErr" /\ ~MayRetry(op[c].retryCount)
                  /\ op'[c] /= op[c])
               => UNCHANGED <<browser, isLoggedIn, live, launched>>
            /\ (Invoked(c) /\ browser /= 0)
               => /\ op'[c].pc = "newPage"
                  /\ op'[c].target = browser
                  /\ UNCHANGED <<browser, launched>>]_vars

\* C39: whenever control is back at the event loop, a Queue that is not
\* processing has no pending entry: no thunk waits in an idle queue.
C39_IdleQueueIsEmpty ==
    (ObservationPoint(Generic) /\ ~processing[Generic]) => Len(queue[Generic]) = 0

\* C39's case: entries arrived while a thunk was executing, thunks fulfilled
\* and rejected, and the queue has run dry: idle and empty.
C39_Witness ==
    /\ ObservationPoint(Generic)
    /\ ~processing[Generic]
    /\ nEnq[Generic] = MaxTasks
    /\ queue[Generic] = <<>>
    /\ thunk[Generic][1].state = "rejected"
    /\ thunk[Generic][MaxTasks].state = "fulfilled"
    /\ \A t \in 1..MaxTasks : Settled(Generic, t)

\* C40: every browser step terminating, every invocation of the four
\* operations ends (with a result or an error), and the queue entry that
\* wraps it settles.
C40_EveryInvocationTerminates ==
    \A c \in Categories :
        /\ InFlight(c) ~> ~InFlight(c)
        /\ \A t \in Tasks : Started(c, t) ~> Settled(c, t)

\* C40's case: a getNetworkSvg invocation went through every retry, each on
\* a browser of its own, and its queue entry has been rejected; the request
\* before it was answered.
C40_Witness ==
    /\ deferred["networkSvg"][1].state = "rejected"
    /\ launched = maxRetries + 1
    /\ Settled("pageContent", 1)
    /\ Quiet

\* a step of initialize, close or login inside the invocation of category c
SessionStepOf(c) ==
    /\ op[c].pc \in {"launch", "relaunch", "closeBrowser", "login"}
    /\ op'[c] /= op[c]

\* a step of the initialize() of startServer or of the close() of shutdown
LifecycleStep ==
    \/ server = "launching" /\ server' /= server
    \/ call.pc = "shutdown" /\ call' /= call

\* C31: the browser handle and the authenticated flag change only in steps
\* of initialize, close and login made inside an operation's execution or by
\* the start/stop lifecycle calls (so not in queue operations), and the
\* lifecycle calls change them only while no operation is in flight.
C31_SessionChangesOnlyInsideOperations ==
    [][(browser' /= browser \/ isLoggedIn' /= isLoggedIn) =>
          \/ \E c \in Categories : SessionStepOf(c)
          \/ LifecycleStep /\ \A c \in Categories : ~InFlight(c)]_vars

\* the url is one getPageContent is to be called with
Valid(u) == u /= <<>> /\ StartsWith(u, SitePrefix)

\* C33: a request to GET /page whose url is missing or does not start with
\* the site's prefix is answered with an error and changes neither the three
\* queues nor the browser handle nor the authenticated flag, and
\* getPageContent is called with urls of the site only.
C33_InvalidUrlEnqueuesNothing ==
    /\ [][http'.rejected /= http.rejected =>
              /\ http'.calls = http.calls
              /\ UNCHANGED <<qvars, browser, isLoggedIn, op>>]_vars
    /\ [](http.calls > 0 => Valid(http.url))
    /\ [](nEnq["pageContent"] = http.calls)

C33_Witness ==
    /\ http.rejected > 0
    /\ http.calls > 0
    /\ op["pageContent"].pc = "navigate"

====
